---- MODULE Spec2Model ----
(***************************************************************************)
(* Model of sukd.py, the stable upstream kernel downloader: the checksum   *)
(* manifest parser, the architecture / flavor selection, the download and  *)
(* verify batch and the dpkg install loop of main().                       *)
(*                                                                         *)
(* Strings are sequences of one-character strings, so that the substring, *)
(* suffix and split tests of the script are computed and not assumed.      *)
(* Positions returned by the script's helpers are Python positions         *)
(* (0-based); SubSeq calls add 1 where they use them.                       *)
(***************************************************************************)
EXTENDS Integers, Sequences, FiniteSets, TLC

----------------------------------------------------------------------------
(* Bounds of the model *)

MaxLines == 2          \* lines of a generated manifest text
MaxIter == 2           \* download iterations of one session
MaxLockedProbes == 2   \* Locked probes of a batch that the history tells apart
\* spinner threads created in one run
MaxThreads == 2

----------------------------------------------------------------------------
(* Program constants *)

HashLen == 40
FlavorDashNo == 4
ArchSegment == 2
STATE_TRUE == 1
STATE_FALSE == 0

CHECKSUMS_FILE == <<"C","H","E","C","K","S","U","M","S">>
SEP == <<"/">>
user_kernel_package_download_dir == <<"/","d">>
version_directory_string == <<"v","4",".","9">>

----------------------------------------------------------------------------
(* Characters *)

Whitespace == {" ", "\t"}

\* a character that UTF-8 encodes in two bytes
TwoByteChar == "U+00E9"

UpperChars == <<"A","B","C","D","E","F","G","H","I","J","K","L","M",
                "N","O","P","Q","R","S","T","U","V","W","X","Y","Z">>
LowerChars == <<"a","b","c","d","e","f","g","h","i","j","k","l","m",
                "n","o","p","q","r","s","t","u","v","w","x","y","z">>

lower_char(c) ==
    IF \E i \in 1..Len(UpperChars) : UpperChars[i] = c
    THEN LowerChars[CHOOSE i \in 1..Len(UpperChars) : UpperChars[i] = c]
    ELSE c

\* str.lower()
str_lower(s) == [i \in 1..Len(s) |-> lower_char(s[i])]

Utf8Width(c) == IF c = TwoByteChar THEN 2 ELSE 1

RECURSIVE strlen_unicode(_)
\* len(s.encode('utf-8'))
strlen_unicode(s) ==
    IF s = <<>> THEN 0 ELSE Utf8Width(Head(s)) + strlen_unicode(Tail(s))

----------------------------------------------------------------------------
(* String operations of Python used by the script *)

\* sub in s
str_contains(s, sub) ==
    \E i \in 1..(Len(s) - Len(sub) + 1) : SubSeq(s, i, i + Len(sub) - 1) = sub

\* s.endswith(suf)
str_endswith(s, suf) ==
    /\ Len(s) >= Len(suf)
    /\ SubSeq(s, Len(s) - Len(suf) + 1, Len(s)) = suf

\* s.index(sub): Python position of the first occurrence, -1 stands for
\* the ValueError that str.index raises when there is none
get_string_index(s, sub) ==
    IF str_contains(s, sub)
    THEN (CHOOSE i \in 1..(Len(s) - Len(sub) + 1) :
             /\ SubSeq(s, i, i + Len(sub) - 1) = sub
             /\ \A j \in 1..(i - 1) : SubSeq(s, j, j + Len(sub) - 1) # sub) - 1
    ELSE -1

RECURSIVE str_split_on(_, _)
\* s.split(c) for a one-character separator: empty segments are kept
str_split_on(s, c) ==
    IF \A i \in 1..Len(s) : s[i] # c
    THEN <<s>>
    ELSE LET i == CHOOSE k \in 1..Len(s) :
                      s[k] = c /\ \A j \in 1..(k - 1) : s[j] # c
         IN  <<SubSeq(s, 1, i - 1)>> \o str_split_on(SubSeq(s, i + 1, Len(s)), c)

RECURSIVE str_lstrip(_)
str_lstrip(s) ==
    IF s # <<>> /\ Head(s) \in Whitespace THEN str_lstrip(Tail(s)) ELSE s

RECURSIVE str_rstrip(_)
str_rstrip(s) ==
    IF s # <<>> /\ s[Len(s)] \in Whitespace
    THEN str_rstrip(SubSeq(s, 1, Len(s) - 1))
    ELSE s

\* s.strip()
str_strip(s) == str_rstrip(str_lstrip(s))

RECURSIVE str_split(_)
\* s.split(): the maximal runs of non-whitespace characters
str_split(s) ==
    LET t == str_lstrip(s)
    IN  IF t = <<>>
        THEN <<>>
        ELSE LET n == IF \A i \in 1..Len(t) : t[i] \notin Whitespace
                      THEN Len(t)
                      ELSE (CHOOSE k \in 1..Len(t) :
                               /\ t[k] \in Whitespace
                               /\ \A j \in 1..(k - 1) : t[j] \notin Whitespace) - 1
             IN  <<SubSeq(t, 1, n)>> \o str_split(SubSeq(t, n + 1, Len(t)))

\* re.search(r".*\.deb$", line, re.IGNORECASE | re.UNICODE) is not None,
\* for a stripped line (no line break inside)
matches_deb(line) == str_endswith(str_lower(line), <<".","d","e","b">>)

\* the position of the last "/" of p at or before position i, 0 if none
last_slash(p, i) ==
    LET slashes == {k \in 1..i : p[k] = "/"}
    IN  IF slashes = {} THEN 0 ELSE CHOOSE k \in slashes : \A j \in slashes : j <= k

\* os.path.basename
basename(p) == SubSeq(p, last_slash(p, Len(p)) + 1, Len(p))

\* find_position_of_nth_string_occurence(targetstr, char, nthpos)
find_position_of_nth_string_occurence(targetstr, char, nthpos) ==
    LET hits == {i \in 1..Len(targetstr) : targetstr[i] = char}
        upto(i) == Cardinality({j \in hits : j <= i})
    IN  IF strlen_unicode(targetstr) = 0
        THEN 0
        ELSE IF \E i \in hits : upto(i) = nthpos
             THEN (CHOOSE i \in hits : upto(i) = nthpos) - 1
             ELSE 0

----------------------------------------------------------------------------
(* Manifest texts: the digests, file names and lines the model draws from *)

Dg(c) == [i \in 1..HashLen |-> c]
DgShort == [i \in 1..(HashLen - 1) |-> "a"]
DgLong == [i \in 1..(HashLen + 1) |-> "a"]
\* 39 characters that encode to 40 bytes
DgTwoByte == [i \in 1..(HashLen - 2) |-> "a"] \o <<TwoByteChar>>

W_img == <<"l","i","n","u","x","-","i","m","a","g","e","-","4",".","9","-","1","-">>
W_hdr == <<"l","i","n","u","x","-","h","e","a","d","e","r","s","-","4",".","9","-","1","-">>
W_hdrall == <<"l","i","n","u","x","-","h","e","a","d","e","r","s","-","4",".","9","-","1">>
W_ver == <<"_","4",".","9","_">>
W_generic == <<"g","e","n","e","r","i","c">>
W_lowlatency == <<"l","o","w","l","a","t","e","n","c","y">>
W_lpae == <<"l","p","a","e">>
W_generic_lpae == <<"g","e","n","e","r","i","c","-","l","p","a","e">>
W_amd64 == <<"a","m","d","6","4">>
W_ppc64 == <<"p","p","c","6","4">>
W_ppc64el == <<"p","p","c","6","4","e","l">>
W_all == <<"a","l","l">>
W_deb == <<".","d","e","b">>
W_DEB == <<".","D","E","B">>
W_txt == <<".","t","x","t">>

F_img_generic_amd64 == W_img \o W_generic \o W_ver \o W_amd64 \o W_deb
F_hdr_generic_amd64 == W_hdr \o W_generic \o W_ver \o W_amd64 \o W_deb
F_hdr_all == W_hdrall \o W_ver \o W_all \o W_deb
F_img_lowlatency_amd64 == W_img \o W_lowlatency \o W_ver \o W_amd64 \o W_deb
F_img_lowlatency_ppc64el == W_img \o W_lowlatency \o W_ver \o W_ppc64el \o W_deb
F_img_generic_ppc64 == W_img \o W_generic \o W_ver \o W_ppc64 \o W_deb
F_img_generic_lpae_amd64 == W_img \o W_generic_lpae \o W_ver \o W_amd64 \o W_deb
F_img_lpae_amd64 == W_img \o W_lpae \o W_ver \o W_amd64 \o W_deb
F_img_generic_amd64_upper == W_img \o W_generic \o W_ver \o W_amd64 \o W_DEB
F_notes == <<"n","o","t","e","s">> \o W_txt
\* two "_"-separated segments only
F_two_segments == <<"l","i","n","u","x","_","4",".","9">> \o W_deb
\* one "-" only
F_one_dash == <<"l","i","n","u","x","-","i","m","a","g","e">> \o W_ver \o W_amd64 \o W_deb
\* a 40-character token that ends in .deb
T_lonely == [i \in 1..(HashLen - 4) |-> "a"] \o W_deb

Line(digest, file) == digest \o <<" ", " ">> \o file

L_img_generic_amd64 == Line(Dg("1"), F_img_generic_amd64)
L_hdr_generic_amd64 == Line(Dg("2"), F_hdr_generic_amd64)
L_hdr_all == Line(Dg("3"), F_hdr_all)
L_short_digest == Line(DgShort, F_img_lowlatency_amd64)
L_long_digest == Line(DgLong, F_img_lowlatency_amd64)
L_two_byte == Line(DgTwoByte, F_img_lowlatency_amd64)
L_lowlatency_ppc64el == Line(Dg("4"), F_img_lowlatency_ppc64el)
L_generic_ppc64 == Line(Dg("5"), F_img_generic_ppc64)
L_generic_lpae_amd64 == Line(Dg("6"), F_img_generic_lpae_amd64)
L_lpae_amd64 == Line(Dg("7"), F_img_lpae_amd64)
L_notes == Line(Dg("8"), F_notes)
L_upper == <<"\t">> \o Dg("A") \o <<"\t">> \o F_img_generic_amd64_upper \o <<" ">>
L_lonely == T_lonely
L_two_segments == Line(Dg("9"), F_two_segments)
L_one_dash == Line(Dg("b"), F_one_dash)
\* the digest of L_img_generic_amd64 again, with another file
L_same_digest == Line(Dg("1"), F_img_generic_ppc64)

LinePool ==
    { L_img_generic_amd64, L_hdr_generic_amd64, L_hdr_all, L_short_digest,
      L_long_digest, L_two_byte, L_lowlatency_ppc64el, L_generic_ppc64,
      L_generic_lpae_amd64, L_lpae_amd64, L_notes, L_upper, L_lonely,
      L_two_segments, L_one_dash, L_same_digest }

\* every manifest text of at most MaxLines lines of the pool
GeneratedManifests == UNION {[1..n -> LinePool] : n \in 0..MaxLines}

\* section 8, end-to-end scenario: two amd64/generic lines, one _all.deb
\* line and one line with a 39-character digest
M_scenario == <<L_hdr_generic_amd64, L_img_generic_amd64, L_hdr_all, L_short_digest>>
M_amd64 == <<L_hdr_generic_amd64, L_img_generic_amd64, L_short_digest>>
\* the all-architectures package only
M_all == <<L_hdr_all>>
M_none == <<L_short_digest, L_notes>>

\* the manifest texts the remote archive answers with
ManifestPool == {M_amd64, M_all, M_none}

----------------------------------------------------------------------------
(* Manifest parser, lines 823-835.  The dict kernel_hashes_and_files is the *)
(* sequence of its items in the order in which items() yields them.         *)

\* d[k] = v
dict_set(d, k, v) ==
    IF \E i \in 1..Len(d) : d[i].hash = k
    THEN [i \in 1..Len(d) |->
             IF d[i].hash = k THEN [hash |-> k, file |-> v] ELSE d[i]]
    ELSE Append(d, [hash |-> k, file |-> v])

dict_values(d) == [i \in 1..Len(d) |-> d[i].file]

\* kernel_hash_and_file[1].split("_")[2].split(".")[0]
arch_token(file) == str_split_on(str_split_on(file, "_")[ArchSegment + 1], ".")[1]

\* variant: the token is appended without a look at the list
add_arch_unseen_or_not(archs, kernel_arch) ==
    IF kernel_arch # W_all THEN Append(archs, kernel_arch) ELSE archs

\* lines 834-835
add_arch(archs, kernel_arch) ==
    IF /\ \A i \in 1..Len(archs) : archs[i] # kernel_arch
       /\ kernel_arch # W_all
    THEN Append(archs, kernel_arch)
    ELSE archs

\* variant: the length of the first token is not looked at
parse_line_any_digest(st, raw) ==
    LET read_line == str_strip(raw)
        kernel_hash_and_file == str_split(read_line)
    IN  IF st.err \/ ~matches_deb(read_line)
        THEN st
        ELSE IF Len(kernel_hash_and_file) < 2
        THEN [st EXCEPT !.err = TRUE]
        ELSE LET index == dict_set(st.index, kernel_hash_and_file[1],
                                   kernel_hash_and_file[2])
                 segments == str_split_on(kernel_hash_and_file[2], "_")
             IN  IF Len(segments) < ArchSegment + 1
                 THEN [st EXCEPT !.index = index, !.err = TRUE]
                 ELSE [st EXCEPT !.index = index,
                                 !.archs = add_arch(st.archs,
                                               arch_token(kernel_hash_and_file[2]))]

\* the body of the for loop over the manifest lines; st.err is set when the
\* body raises (IndexError), which ends the loop
parse_line(st, raw) ==
    LET read_line == str_strip(raw)
        kernel_hash_and_file == str_split(read_line)
    IN  IF st.err \/ ~matches_deb(read_line)
        THEN st
        ELSE IF strlen_unicode(kernel_hash_and_file[1]) # HashLen
        THEN st
        ELSE IF Len(kernel_hash_and_file) < 2
        THEN [st EXCEPT !.err = TRUE]
        ELSE LET index == dict_set(st.index, kernel_hash_and_file[1],
                                   kernel_hash_and_file[2])
                 segments == str_split_on(kernel_hash_and_file[2], "_")
             IN  IF Len(segments) < ArchSegment + 1
                 THEN [st EXCEPT !.index = index, !.err = TRUE]
                 ELSE [st EXCEPT !.index = index,
                                 !.archs = add_arch(st.archs,
                                               arch_token(kernel_hash_and_file[2]))]

RECURSIVE parse_lines(_, _)
parse_lines(st, lines) ==
    IF lines = <<>> THEN st
    ELSE parse_lines(parse_line(st, Head(lines)), Tail(lines))

\* del kernel_available_architectures[:] and the loop
build_checksum_tables(index, lines) ==
    parse_lines([index |-> index, archs |-> <<>>, err |-> FALSE], lines)

----------------------------------------------------------------------------
(* Selection deriver, lines 883-893 *)

\* lines 889-891; err stands for the ValueError of str.index
flavor_of(kernel_file) ==
    LET startpos_kernel_flavor ==
            find_position_of_nth_string_occurence(kernel_file, "-", FlavorDashNo) + 1
        flavor == SubSeq(kernel_file, startpos_kernel_flavor + 1, Len(kernel_file))
        n == get_string_index(flavor, <<"_">>)
    IN  [err |-> n = -1, flavor |-> IF n = -1 THEN <<>> ELSE SubSeq(flavor, 1, n)]

\* line 887
has_flavor_for(kernel_file, arch) ==
    /\ ~str_contains(kernel_file, <<"_","a","l","l",".","d","e","b">>)
    /\ str_contains(kernel_file, arch)

derive_flavor(st, kernel_file, arch) ==
    IF st.err \/ ~has_flavor_for(kernel_file, arch)
    THEN st
    ELSE LET f == flavor_of(kernel_file)
         IN  IF f.err
             THEN [st EXCEPT !.err = TRUE]
             ELSE IF \E i \in 1..Len(st.flavors) : st.flavors[i] = f.flavor
             THEN st
             ELSE [st EXCEPT !.flavors = Append(st.flavors, f.flavor)]

RECURSIVE derive_flavors_from(_, _, _)
derive_flavors_from(st, files, arch) ==
    IF files = <<>> THEN st
    ELSE derive_flavors_from(derive_flavor(st, Head(files), arch), Tail(files), arch)

\* del kernel_available_flavors[:] and the loop
derive_flavors(index, arch) ==
    derive_flavors_from([flavors |-> <<>>, err |-> FALSE], dict_values(index), arch)

----------------------------------------------------------------------------
(* Fetch orchestrator: the filter of the download loop, lines 990-992 *)

is_selected(kernel_deb_file, arch, flavor) ==
    \/ str_endswith(kernel_deb_file, <<"_","a","l","l",".","d","e","b">>)
    \/ /\ str_endswith(kernel_deb_file, <<"_">> \o arch \o W_deb)
       /\ str_contains(kernel_deb_file, <<"-">> \o flavor \o <<"_">>)

\* positions of the dict items the download loop downloads
selected_positions(index, arch, flavor) ==
    {i \in 1..Len(index) : is_selected(index[i].file, arch, flavor)}

full_download_location(arch, flavor) ==
    user_kernel_package_download_dir \o SEP \o version_directory_string
        \o SEP \o arch \o SEP \o flavor

destination_full_path(arch, flavor, file) ==
    full_download_location(arch, flavor) \o SEP \o file

\* variant: the path is recorded whatever download_file returned
record_download_always(files, path, ok) ==
    Append(files, path)

\* lines 970-974 and 1009-1012: the list after download_file returned ok
record_download(files, path, ok) ==
    IF ok THEN Append(files, path) ELSE files

\* variant: a file that fails the verification is left out
download_and_verify_strict(files, path, ok, digest_matches) ==
    IF ok /\ digest_matches THEN Append(files, path) ELSE files

\* lines 1009-1037: the list after one download and its verification;
\* digest_matches is the result of the comparison at line 1032, which only
\* chooses the message
download_and_verify(files, path, ok, digest_matches) ==
    record_download(files, path, ok)

----------------------------------------------------------------------------
(* Install sequencer *)

RECURSIVE sort_from(_, _)
sort_from(sorted, rest) ==
    IF rest = <<>> THEN sorted
    ELSE LET x == Head(rest)
             k == Cardinality({i \in 1..Len(sorted) : Len(sorted[i]) <= Len(x)})
         IN  sort_from(SubSeq(sorted, 1, k) \o <<x>> \o SubSeq(sorted, k + 1, Len(sorted)),
                       Tail(rest))

\* variant: the list is left in download order
sort_by_len_skipped(files) == files

\* list.sort(key=len), a stable sort
sort_by_len(files) == sort_from(<<>>, files)

\* line 1045
nothing_downloaded(files) ==
    \/ Len(files) = 0
    \/ Len(files) = 1 /\ \E i \in 1..Len(files) : files[i] = CHECKSUMS_FILE

----------------------------------------------------------------------------
(* State *)

VARIABLES
    pc,                                 \* position of main()
    IS_PYTHON3,                         \* the interpreter that runs the script
    euid_is_root,                       \* os.geteuid() == 0
    iter,                               \* number of the download iteration
    manifest,                           \* lines of kernel_checksums_file_stream
    kernel_hashes_and_files,
    kernel_available_architectures,
    kernel_available_flavors,
    kernel_selected_target_arch,
    kernel_selected_target_flavor,
    user_downloaded_kernel_deb_files,
    dl_pos,                             \* position of the download loop in the dict items
    inst_pos,                           \* position of the install loop in the list
    error_occurred,
    last_error_code,
    exit_installation,
    dpkg_lock,                          \* another installer holds DPKG_LOCK_FILE
    pending_exit,                       \* exit or exception on its way to the finally clause
    exit_status,                        \* exit status of the process, -1 while it runs
    attempts,                           \* history: download attempts of the batch
    batch_log,                          \* history: probes, answers and installs of the batch
    shown,                              \* history: what the iteration has printed
    handler,                            \* history: the except clause that ran
    web_response,                       \* kind of the last response of open_webfile_get_response
    abort_progress_sentinel,            \* SpinningProgress: "None", "False" or "True"
    spinner_thread_running,             \* SpinningProgress: flag written by the threads
    spinner_thread,                     \* SpinningProgress: the last thread created, 0 for None
    thread_state,                       \* position of every spinner thread created
    spin_at                             \* the decorated call main() is at, and from where it stops

envVars == <<IS_PYTHON3, euid_is_root>>
faultVars == <<handler, web_response>>
spinVars == <<abort_progress_sentinel, spinner_thread_running, spinner_thread,
              thread_state, spin_at>>
parseVars == <<manifest, kernel_hashes_and_files, kernel_available_architectures>>
selVars == <<kernel_available_flavors, kernel_selected_target_arch,
             kernel_selected_target_flavor>>
dlVars == <<user_downloaded_kernel_deb_files, dl_pos, attempts>>
instVars == <<inst_pos, error_occurred, last_error_code, exit_installation, batch_log>>
vars == <<pc, IS_PYTHON3, euid_is_root, iter, manifest, kernel_hashes_and_files,
          kernel_available_architectures, kernel_available_flavors,
          kernel_selected_target_arch, kernel_selected_target_flavor,
          user_downloaded_kernel_deb_files, dl_pos, inst_pos, error_occurred,
          last_error_code, exit_installation, dpkg_lock, pending_exit,
          exit_status, attempts, batch_log, shown, handler, web_response,
          abort_progress_sentinel, spinner_thread_running, spinner_thread,
          thread_state, spin_at>>

InitGlobals ==
    /\ iter = 1
    /\ kernel_hashes_and_files = <<>>
    /\ kernel_available_architectures = <<>>
    /\ kernel_available_flavors = <<>>
    /\ kernel_selected_target_arch = <<>>
    /\ kernel_selected_target_flavor = <<>>
    /\ user_downloaded_kernel_deb_files = <<>>
    /\ dl_pos = 0
    /\ inst_pos = 0
    /\ error_occurred = 0
    /\ last_error_code = 0
    /\ exit_installation = FALSE
    /\ dpkg_lock = FALSE
    /\ pending_exit = "none"
    /\ exit_status = -1
    /\ attempts = <<>>
    /\ batch_log = <<>>
    /\ shown = {}
    /\ handler = "none"
    /\ web_response = "none"
    /\ abort_progress_sentinel = "None"
    /\ spinner_thread_running = FALSE
    /\ spinner_thread = 0
    /\ thread_state = <<>>
    /\ spin_at = [site |-> 0, phase |-> "body"]

\* the session at the top of the while loop of main()
Init ==
    /\ pc = "fetch_json"
    /\ IS_PYTHON3 \in BOOLEAN
    /\ euid_is_root \in BOOLEAN
    /\ manifest = <<>>
    /\ InitGlobals

\* the session with a manifest text fetched, before the tables are built
InitSelect ==
    /\ pc = "parse"
    /\ IS_PYTHON3 \in BOOLEAN
    /\ euid_is_root = FALSE
    /\ manifest \in GeneratedManifests
    /\ InitGlobals

----------------------------------------------------------------------------
(* Leaving the try block *)

\* exit_script(n) inside the try block: SystemExit travels to the finally clause
ExitScript(n) ==
    /\ pc' = "finally"
    /\ pending_exit' = n

\* an exception of class Exception raised inside the try block
RaiseException ==
    /\ pc' = "except_exc"
    /\ pending_exit' = "none"

\* raise WebFileDownloadError
RaiseWebFileDownloadError ==
    /\ pc' = "except_web"
    /\ pending_exit' = "none"

\* a KeyboardInterrupt that reaches the try block of main()
RaiseKeyboardInterrupt ==
    /\ pc' = "except_kbd"
    /\ pending_exit' = "none"

\* lines 1181-1199: the except clauses.  Under Python 3 the handler of
\* Exception reads e.message, which no exception has, and raises itself.
ExceptHandler ==
    /\ pc \in {"except_web", "except_kbd", "except_exc"}
    /\ pc' = "finally"
    /\ pending_exit' = IF pc = "except_exc" /\ IS_PYTHON3 THEN "exception" ELSE "exit1"
    /\ handler' = pc
    /\ UNCHANGED <<envVars, spinVars, web_response, iter, parseVars, selVars, dlVars, instVars, dpkg_lock,
                   exit_status, shown>>

\* lines 1200-1203: exit_script(0) in the finally clause replaces whatever
\* exit or exception is on its way.  The process is gone afterwards and
\* nothing of its memory is left.
Finally ==
    /\ pc = "finally"
    /\ pc' = "exited"
    /\ exit_status' = 0
    /\ pending_exit' = "none"
    /\ manifest' = <<>>
    /\ kernel_hashes_and_files' = <<>>
    /\ kernel_available_architectures' = <<>>
    /\ kernel_available_flavors' = <<>>
    /\ kernel_selected_target_arch' = <<>>
    /\ kernel_selected_target_flavor' = <<>>
    /\ user_downloaded_kernel_deb_files' = <<>>
    /\ dl_pos' = 0
    /\ inst_pos' = 0
    /\ error_occurred' = 0
    /\ last_error_code' = 0
    /\ exit_installation' = FALSE
    /\ attempts' = <<>>
    /\ batch_log' = <<>>
    /\ shown' = {}
    /\ web_response' = "none"
    /\ UNCHANGED <<envVars, spinVars, handler, iter, dpkg_lock>>

----------------------------------------------------------------------------
(* Collecting the online information, lines 751-810 *)

\* what open_webfile_get_response returns: the code 200 with a text, the
\* code 200 with an empty text, or another code (with a text or None; 0 and
\* None when the request raised)
WebResponses == {"ok", "empty_body", "non_success"}

\* lines 769 and 801: the test that raises WebFileDownloadError.  A body is
\* None only together with a code that is not 200.
response_is_refused(response) == response = "non_success"

\* lines 754-791: the release index; json.loads raises ValueError for the
\* empty text
FetchJson ==
    /\ pc = "fetch_json"
    /\ \E response \in WebResponses :
         /\ web_response' = response
         /\ IF response_is_refused(response)
            THEN RaiseWebFileDownloadError
            ELSE IF response = "empty_body"
            THEN RaiseException
            ELSE pc' = "fetch_checksums" /\ UNCHANGED pending_exit
    /\ UNCHANGED <<envVars, spinVars, handler, iter, parseVars, selVars, dlVars, instVars, dpkg_lock,
                   exit_status, shown>>

\* lines 793-810: the CHECKSUMS text
FetchChecksums ==
    /\ pc = "fetch_checksums"
    /\ \E response \in WebResponses :
         /\ web_response' = response
         /\ IF response_is_refused(response)
            THEN RaiseWebFileDownloadError /\ UNCHANGED manifest
            ELSE /\ IF response = "empty_body"
                    THEN manifest' = <<>>
                    ELSE \E m \in ManifestPool : manifest' = m
                 /\ pc' = "parse"
                 /\ UNCHANGED pending_exit
    /\ UNCHANGED <<envVars, spinVars, handler, iter, kernel_hashes_and_files,
                   kernel_available_architectures, selVars, dlVars, instVars,
                   dpkg_lock, exit_status, shown>>

\* get_string_unicode_stream: unicode(string) of Python 2 fails on a byte
\* that is not ASCII, and the stream is None
stream_is_none(lines) ==
    /\ ~IS_PYTHON3
    /\ \E i \in 1..Len(lines) : \E j \in 1..Len(lines[i]) : Utf8Width(lines[i][j]) > 1

\* variant: only the index is looked at
release_is_empty_index_only(index, archs) == Len(index) = 0

\* line 850
release_is_empty(index, archs) == Len(index) = 0 \/ Len(archs) = 0

\* the orders in which items() may yield the entries of the dict d once the
\* loop has filled it: the insertion order under Python 3 (the language
\* keeps it since 3.7), any order under Python 2, whose dict has no order of
\* its own; the order stays as it is until the dict is written again
dict_item_orders(d) ==
    IF IS_PYTHON3
    THEN {d}
    ELSE {[i \in 1..Len(d) |-> d[p[i]]] :
             p \in {q \in [1..Len(d) -> 1..Len(d)] :
                       \A i, j \in 1..Len(d) : i # j => q[i] # q[j]}}

\* lines 813-858: building the tables, the empty release
Parse ==
    /\ pc = "parse"
    /\ IF stream_is_none(manifest)
       THEN /\ kernel_available_architectures' = <<>>
            /\ UNCHANGED kernel_hashes_and_files
            /\ RaiseException
            /\ UNCHANGED shown
       ELSE \E st \in {build_checksum_tables(kernel_hashes_and_files, manifest)} :
                /\ kernel_hashes_and_files' \in dict_item_orders(st.index)
                /\ kernel_available_architectures' = st.archs
                /\ IF st.err
                   THEN RaiseException /\ UNCHANGED shown
                   ELSE IF release_is_empty(st.index, st.archs)
                   THEN ExitScript("exit0") /\ shown' = shown \cup {"no_packages"}
                   ELSE /\ pc' = "arch_menu"
                        /\ shown' = shown \cup {"arch_menu"}
                        /\ UNCHANGED pending_exit
    /\ UNCHANGED <<envVars, spinVars, faultVars, iter, manifest, selVars, dlVars, instVars, dpkg_lock,
                   exit_status>>

----------------------------------------------------------------------------
(* Selection, lines 860-905.  request_user_input_number_exit_on_fail       *)
(* returns for an input in 1..max and exits the script for the input 0;    *)
(* any other input is asked again.                                          *)

\* lines 868-893: the architecture menu and the flavors of the answer
ChooseArch ==
    /\ pc = "arch_menu"
    /\ \E n \in 0..Len(kernel_available_architectures) :
         IF n = 0
         THEN /\ ExitScript("exit1")
              /\ UNCHANGED <<selVars, shown>>
         ELSE \E arch \in {kernel_available_architectures[n]} :
              \E st \in {derive_flavors(kernel_hashes_and_files, arch)} :
                  /\ kernel_selected_target_arch' = arch
                  /\ kernel_available_flavors' = st.flavors
                  /\ UNCHANGED kernel_selected_target_flavor
                  /\ IF st.err
                     THEN RaiseException /\ UNCHANGED shown
                     ELSE /\ pc' = "flavor_menu"
                          /\ shown' = shown \cup {"flavor_menu"}
                          /\ UNCHANGED pending_exit
    /\ UNCHANGED <<envVars, spinVars, faultVars, iter, parseVars, dlVars, instVars, dpkg_lock, exit_status>>

\* lines 898-905: the flavor menu
ChooseFlavor ==
    /\ pc = "flavor_menu"
    /\ \E n \in 0..Len(kernel_available_flavors) :
         IF n = 0
         THEN /\ ExitScript("exit1")
              /\ UNCHANGED kernel_selected_target_flavor
         ELSE /\ kernel_selected_target_flavor' = kernel_available_flavors[n]
              /\ pc' = "prepare_dir"
              /\ UNCHANGED pending_exit
    /\ UNCHANGED <<envVars, spinVars, faultVars, iter, parseVars, kernel_available_flavors,
                   kernel_selected_target_arch, dlVars, instVars, dpkg_lock,
                   exit_status, shown>>

----------------------------------------------------------------------------
(* Download batch, lines 907-1039 *)

\* lines 907-955: the download directory; a directory that holds files
\* leads to the purge prompt
PrepareDir ==
    /\ pc = "prepare_dir"
    /\ \E answer \in {"empty", "purge", "overwrite", "abort"} :
         IF answer = "abort"
         THEN ExitScript("exit1")
         ELSE pc' = "dl_checksums" /\ UNCHANGED pending_exit
    /\ UNCHANGED <<envVars, spinVars, faultVars, iter, parseVars, selVars, dlVars, instVars, dpkg_lock,
                   exit_status, shown>>

\* what download_file leaves behind: ok, or a failure with or without a
\* local file (one of an earlier run, or a partial one of the download tool)
DownloadOutcomes == {"ok", "fail_file", "fail_nofile"}

\* get_file_size raises when the file is missing under Python 3, where the
\* OSError it catches has no attribute message
get_file_size_raises(outcome) == outcome = "fail_nofile" /\ IS_PYTHON3

\* variant: the list of the iteration before is kept
del_downloaded_skipped(files) == files

\* line 958, del user_downloaded_kernel_deb_files[:]: the list is emptied
\* before the first download of every iteration
del_downloaded(files) == <<>>

\* lines 957-985: the manifest file
DownloadChecksums ==
    /\ pc = "dl_checksums"
    /\ \E outcome \in DownloadOutcomes :
         LET path == destination_full_path(kernel_selected_target_arch,
                                           kernel_selected_target_flavor,
                                           CHECKSUMS_FILE)
         IN  /\ user_downloaded_kernel_deb_files' =
                    record_download(del_downloaded(user_downloaded_kernel_deb_files),
                                    path, outcome = "ok")
             /\ attempts' = <<[file |-> path, ok |-> outcome = "ok", digest |-> "none"]>>
             /\ dl_pos' = 0
             /\ IF get_file_size_raises(outcome)
                THEN RaiseException
                ELSE pc' = "dl_loop" /\ UNCHANGED pending_exit
    /\ UNCHANGED <<envVars, spinVars, faultVars, iter, parseVars, selVars, instVars, dpkg_lock,
                   exit_status, shown>>

\* variant: the for loop ends after the first file it has downloaded
remaining_positions_first_only ==
    {i \in selected_positions(kernel_hashes_and_files, kernel_selected_target_arch,
                              kernel_selected_target_flavor) :
        i > dl_pos /\ dl_pos = 0}

\* the dict items the for loop at line 989 has still to visit and download
remaining_positions ==
    {i \in selected_positions(kernel_hashes_and_files, kernel_selected_target_arch,
                              kernel_selected_target_flavor) : i > dl_pos}

\* lines 989-1039: one selected file: download, size, digest, comparison.
\* The digest tool prints nothing for a missing file, the digest is None and
\* None.lower() raises.
DownloadNext ==
    /\ pc = "dl_loop"
    /\ remaining_positions # {}
    /\ LET i == CHOOSE k \in remaining_positions : \A j \in remaining_positions : k <= j
           path == destination_full_path(kernel_selected_target_arch,
                                         kernel_selected_target_flavor,
                                         kernel_hashes_and_files[i].file)
       IN  /\ dl_pos' = i
           /\ \E outcome \in DownloadOutcomes :
                IF outcome = "fail_nofile"
                THEN /\ user_downloaded_kernel_deb_files' =
                            record_download(user_downloaded_kernel_deb_files, path, FALSE)
                     /\ attempts' = Append(attempts,
                            [file |-> path, ok |-> FALSE, digest |-> "none"])
                     /\ RaiseException
                ELSE \E digest_matches \in BOOLEAN :
                     /\ user_downloaded_kernel_deb_files' =
                            download_and_verify(user_downloaded_kernel_deb_files, path,
                                                outcome = "ok", digest_matches)
                     /\ attempts' = Append(attempts,
                            [file |-> path, ok |-> outcome = "ok",
                             digest |-> IF outcome # "ok" THEN "left_over"
                                        ELSE IF digest_matches THEN "match"
                                        ELSE "mismatch"])
                     /\ UNCHANGED <<pc, pending_exit, shown>>
    /\ UNCHANGED <<envVars, spinVars, faultVars, iter, parseVars, selVars, instVars, dpkg_lock, exit_status,
                   shown>>

\* variant: the installation is offered to every user
report_outcome_any_user(files, root) ==
    IF nothing_downloaded(files) THEN "nothing" ELSE "offer"

\* lines 1045 and 1057: what follows the download batch
report_outcome(files, root) ==
    IF nothing_downloaded(files) THEN "nothing"
    ELSE IF root THEN "offer"
    ELSE "list"

\* lines 1041-1075: the report of the batch and, for root, the sorted list
Report ==
    /\ pc = "dl_loop"
    /\ remaining_positions = {}
    /\ IF report_outcome(user_downloaded_kernel_deb_files, euid_is_root) = "nothing"
       THEN /\ shown' = shown \cup {"nothing_downloaded"}
            /\ ExitScript("exit0")
            /\ UNCHANGED user_downloaded_kernel_deb_files
       ELSE IF report_outcome(user_downloaded_kernel_deb_files, euid_is_root) = "offer"
       THEN /\ shown' = shown \cup {"file_list", "install_offer"}
            /\ user_downloaded_kernel_deb_files' =
                   sort_by_len(user_downloaded_kernel_deb_files)
            /\ pc' = "install_prompt"
            /\ UNCHANGED pending_exit
       ELSE /\ shown' = shown \cup {"file_list"}
            /\ pc' = "repeat_prompt"
            /\ UNCHANGED <<user_downloaded_kernel_deb_files, pending_exit>>
    /\ UNCHANGED <<envVars, spinVars, faultVars, iter, parseVars, selVars, dl_pos, attempts, instVars,
                   dpkg_lock, exit_status>>

----------------------------------------------------------------------------
(* Installation, lines 1077-1165 *)

\* request_user_yes_no_abort_script: Yes and No return, Abort exits the script
Answers == {"yes", "no", "abort"}

\* lines 1077-1086: the install prompt
InstallPrompt ==
    /\ pc = "install_prompt"
    /\ \E answer \in Answers :
         CASE answer = "abort" ->
                /\ ExitScript("exit1")
                /\ UNCHANGED instVars
           [] answer = "no" ->
                /\ pc' = "repeat_prompt"
                /\ UNCHANGED <<pending_exit, instVars>>
           [] answer = "yes" ->
                /\ error_occurred' = 0
                /\ last_error_code' = 0
                /\ exit_installation' = FALSE
                /\ inst_pos' = 1
                /\ batch_log' = <<>>
                /\ pc' = "lock_check"
                /\ UNCHANGED pending_exit
    /\ UNCHANGED <<envVars, spinVars, faultVars, iter, parseVars, selVars, dlVars, dpkg_lock, exit_status, shown>>

\* is_file_locked(DPKG_LOCK_FILE)
is_file_locked == IF dpkg_lock THEN STATE_TRUE ELSE STATE_FALSE

ProbeEvent(res) == [ev |-> "probe", res |-> res, file |-> <<>>, rc |-> 0]
AnswerEvent(res) == [ev |-> "answer", res |-> res, file |-> <<>>, rc |-> 0]
InstallEvent(file, rc) == [ev |-> "install", res |-> "", file |-> file, rc |-> rc]

LockedProbes == Cardinality({i \in 1..Len(batch_log) : batch_log[i] = ProbeEvent("locked")})

\* variant: the while loop is left whatever the probe returned
after_probe_no_prompt(state) ==
    IF state = STATE_TRUE
    THEN [res |-> "locked", pc |-> "install"]
    ELSE [res |-> "unlocked", pc |-> "install"]

\* lines 1093 and 1121-1122: where the while loop goes after a probe
after_probe(state) ==
    IF state = STATE_TRUE
    THEN [res |-> "locked", pc |-> "lock_prompt"]
    ELSE [res |-> "unlocked", pc |-> "install"]

\* the history after a probe.  The loop has no bound on the retries; the
\* history tells MaxLockedProbes + 1 Locked probes apart and from then on lets a
\* Locked probe that follows a retry answer stand for the one before it
log_probe(log, res) ==
    IF /\ res = "locked"
       /\ LockedProbes > MaxLockedProbes
       /\ log[Len(log)] = AnswerEvent("retry")
    THEN SubSeq(log, 1, Len(log) - 1)
    ELSE Append(log, ProbeEvent(res))

\* lines 1090-1093 and 1121-1122: the lock probe for the file at inst_pos
LockCheck ==
    /\ pc = "lock_check"
    /\ batch_log' = log_probe(batch_log, after_probe(is_file_locked).res)
    /\ pc' = after_probe(is_file_locked).pc
    /\ UNCHANGED <<envVars, spinVars, faultVars, iter, parseVars, selVars, dlVars, inst_pos, error_occurred,
                   last_error_code, exit_installation, dpkg_lock, pending_exit,
                   exit_status, shown>>

\* variant: the No answer leaves only the wait for the lock, the file is
\* installed
lock_decision_no_wait(answer) ==
    IF answer = "no"
    THEN [exit_installation |-> TRUE, pc |-> "install", event |-> "skip"]
    ELSE [exit_installation |-> FALSE, pc |-> "lock_check", event |-> "retry"]

\* variant: the Yes answer gives the batch up as the No answer does
lock_decision_no_retry(answer) ==
    IF answer = "no"
    THEN [exit_installation |-> TRUE, pc |-> "after_batch", event |-> "skip"]
    ELSE [exit_installation |-> TRUE, pc |-> "after_batch", event |-> "retry"]

\* lines 1110-1125: what the answers No and Yes do to the install loop: No
\* sets the flag and breaks out of both loops, Yes resets the flag and
\* probes again
lock_decision(answer) ==
    IF answer = "no"
    THEN [exit_installation |-> TRUE, pc |-> "after_batch", event |-> "skip"]
    ELSE [exit_installation |-> FALSE, pc |-> "lock_check", event |-> "retry"]

\* lines 1095-1125: the three-way decision after a Locked probe
LockPrompt ==
    /\ pc = "lock_prompt"
    /\ \E answer \in Answers :
         IF answer = "abort"
         THEN /\ ExitScript("exit1")
              /\ UNCHANGED <<exit_installation, batch_log>>
         ELSE /\ exit_installation' = lock_decision(answer).exit_installation
              /\ batch_log' = Append(batch_log, AnswerEvent(lock_decision(answer).event))
              /\ pc' = lock_decision(answer).pc
              /\ UNCHANGED pending_exit
    /\ UNCHANGED <<envVars, spinVars, faultVars, iter, parseVars, selVars, dlVars, inst_pos, error_occurred,
                   last_error_code, dpkg_lock, exit_status, shown>>

\* exit statuses of dpkg -i
ReturnCodes == {0, 1, 2}

\* variant: the first non-zero status is the one that is kept
record_return_code_first(st, error_code) ==
    IF error_code # 0
    THEN [last_error_code |-> IF st.error_occurred = 0 THEN error_code
                              ELSE st.last_error_code,
          error_occurred |-> st.error_occurred + 1]
    ELSE st

\* lines 1137-1139: the bookkeeping of one exit status
record_return_code(st, error_code) ==
    IF error_code # 0
    THEN [last_error_code |-> error_code, error_occurred |-> st.error_occurred + 1]
    ELSE st

\* lines 1127-1139: the install of the file at inst_pos, the manifest file
\* is passed over
Install ==
    /\ pc = "install"
    /\ LET deb_file_name == user_downloaded_kernel_deb_files[inst_pos]
       IN  IF basename(deb_file_name) # CHECKSUMS_FILE
           THEN \E error_code \in ReturnCodes :
                  /\ batch_log' = Append(batch_log, InstallEvent(deb_file_name, error_code))
                  /\ LET st == record_return_code(
                                    [last_error_code |-> last_error_code,
                                     error_occurred |-> error_occurred], error_code)
                     IN  /\ last_error_code' = st.last_error_code
                         /\ error_occurred' = st.error_occurred
           ELSE UNCHANGED <<batch_log, last_error_code, error_occurred>>
    /\ inst_pos' = inst_pos + 1
    /\ pc' = IF inst_pos < Len(user_downloaded_kernel_deb_files)
             THEN "lock_check" ELSE "after_batch"
    /\ UNCHANGED <<envVars, spinVars, faultVars, iter, parseVars, selVars, dlVars, exit_installation,
                   dpkg_lock, pending_exit, exit_status, shown>>

\* variant: the reboot is offered whether or not the batch was abandoned
batch_result_ignoring_skip(errors, abandoned) ==
    IF errors # 0 THEN "error_report" ELSE "reboot_offer"

\* lines 1141-1149: what the script does after the install loop
batch_result(errors, abandoned) ==
    IF errors # 0 THEN "error_report"
    ELSE IF ~abandoned THEN "reboot_offer"
    ELSE "nothing"

\* lines 1141-1156: the result of the batch
AfterBatch ==
    /\ pc = "after_batch"
    /\ LET result == batch_result(error_occurred, exit_installation)
       IN  /\ shown' = IF result = "nothing" THEN shown ELSE shown \cup {result}
           /\ pc' = IF result = "reboot_offer" THEN "reboot_prompt" ELSE "repeat_prompt"
    /\ UNCHANGED <<envVars, spinVars, faultVars, iter, parseVars, selVars, dlVars, instVars, dpkg_lock,
                   pending_exit, exit_status>>

\* lines 1158-1165: the reboot prompt
RebootPrompt ==
    /\ pc = "reboot_prompt"
    /\ \E answer \in Answers :
         CASE answer = "abort" ->
                /\ ExitScript("exit1")
                /\ UNCHANGED shown
           [] answer = "no" ->
                /\ pc' = "repeat_prompt"
                /\ UNCHANGED <<pending_exit, shown>>
           [] answer = "yes" ->
                /\ shown' = shown \cup {"reboot"}
                /\ pc' = "repeat_prompt"
                /\ UNCHANGED pending_exit
    /\ UNCHANGED <<envVars, spinVars, faultVars, iter, parseVars, selVars, dlVars, instVars, dpkg_lock,
                   exit_status>>

\* the locals of the loop body that are assigned again before they are read
loopLocals == <<dl_pos, inst_pos, error_occurred, last_error_code, exit_installation>>

\* lines 1167-1179: another iteration, or the end of the while loop.  The
\* globals keep their values into the next iteration; the history and the
\* dead locals of the loop body start afresh.
RepeatPrompt ==
    /\ pc = "repeat_prompt"
    /\ \E answer \in Answers :
         CASE answer = "abort" ->
                /\ ExitScript("exit1")
                /\ UNCHANGED <<iter, shown, attempts, batch_log, loopLocals>>
           [] answer = "no" ->
                /\ pc' = "finally"
                /\ UNCHANGED <<pending_exit, iter, shown, attempts, batch_log, loopLocals>>
           [] answer = "yes" ->
                /\ iter < MaxIter
                /\ iter' = iter + 1
                /\ pc' = "fetch_json"
                /\ shown' = {}
                /\ attempts' = <<>>
                /\ batch_log' = <<>>
                /\ dl_pos' = 0
                /\ inst_pos' = 0
                /\ error_occurred' = 0
                /\ last_error_code' = 0
                /\ exit_installation' = FALSE
                /\ UNCHANGED pending_exit
    /\ UNCHANGED <<envVars, spinVars, faultVars, parseVars, selVars, user_downloaded_kernel_deb_files,
                   dpkg_lock, exit_status>>

\* another installer takes or releases the dpkg lock.  The script looks at
\* the lock when the install loop probes it; is_file_locked releases its own
\* lock before it returns (line 519), so the lock is free to be taken again
\* between an Unlocked probe and the dpkg call that follows it
OtherInstaller ==
    /\ pc \in {"lock_check", "install"}
    /\ dpkg_lock' = ~dpkg_lock
    /\ UNCHANGED <<pc, envVars, spinVars, faultVars, iter, parseVars, selVars, dlVars, instVars,
                   pending_exit, exit_status, shown>>

\* the positions where main() waits in read_ln for an answer
PromptPositions ==
    {"arch_menu", "flavor_menu", "install_prompt", "lock_prompt", "reboot_prompt",
     "repeat_prompt"}

\* the user presses Ctrl-C while main() waits for an answer: read_ln raises
\* KeyboardInterrupt, which no function between it and main() catches
Interrupt ==
    /\ pc \in PromptPositions
    /\ RaiseKeyboardInterrupt
    /\ UNCHANGED <<envVars, spinVars, faultVars, iter, parseVars, selVars, dlVars,
                   instVars, dpkg_lock, exit_status, shown>>

Next ==
    \/ FetchJson \/ FetchChecksums \/ Parse \/ ChooseArch \/ ChooseFlavor
    \/ PrepareDir \/ DownloadChecksums \/ DownloadNext \/ Report
    \/ InstallPrompt \/ LockCheck \/ LockPrompt \/ Install \/ AfterBatch
    \/ RebootPrompt \/ RepeatPrompt \/ OtherInstaller \/ Interrupt
    \/ ExceptHandler \/ Finally

Spec == Init /\ [][Next]_vars

\* the session with the scenario manifest fetched, run by a user who is not
\* root
InitScenario ==
    /\ pc = "parse"
    /\ IS_PYTHON3 \in BOOLEAN
    /\ euid_is_root = FALSE
    /\ manifest = M_scenario
    /\ InitGlobals

\* one download batch, from the tables to the report
NextBatch ==
    \/ Parse \/ ChooseArch \/ ChooseFlavor \/ PrepareDir \/ DownloadChecksums
    \/ DownloadNext \/ Report \/ ExceptHandler \/ Finally

SpecBatch == InitScenario /\ [][NextBatch]_vars

NextSelect == Parse \/ ChooseArch \/ ChooseFlavor \/ ExceptHandler \/ Finally

SpecSelect == InitSelect /\ [][NextSelect]_vars

----------------------------------------------------------------------------
(* Properties of the parser and of the selection, checked under SpecSelect *)

\* the manifest line is a `digest filename` record that qualifies: it ends
\* in .deb (case-insensitive) and its first token has 40 characters
QualifyingLine(raw) ==
    /\ matches_deb(str_strip(raw))
    /\ Len(str_split(raw)) >= 2
    /\ Len(str_split(raw)[1]) = HashLen

\* C5: every entry of the ChecksumIndex has a digest of exactly 40
\* characters and comes from a manifest line that ends in .deb, and every
\* token of the ArchitectureSet comes from such a line; a line whose first
\* token is not 40 characters long never adds an entry or an architecture.
C5_RetainedEntriesQualify ==
    /\ \A i \in 1..Len(kernel_hashes_and_files) :
         /\ Len(kernel_hashes_and_files[i].hash) = HashLen
         /\ \E l \in 1..Len(manifest) :
              /\ QualifyingLine(manifest[l])
              /\ str_split(manifest[l])[1] = kernel_hashes_and_files[i].hash
              /\ str_split(manifest[l])[2] = kernel_hashes_and_files[i].file
    /\ \A a \in 1..Len(kernel_available_architectures) :
         \E l \in 1..Len(manifest) :
              /\ QualifyingLine(manifest[l])
              /\ Len(str_split_on(str_split(manifest[l])[2], "_")) > ArchSegment
              /\ arch_token(str_split(manifest[l])[2]) = kernel_available_architectures[a]

\* C6: the FlavorSet derived for the chosen architecture holds only flavor
\* tokens of index filenames whose architecture segment is that architecture.
C6_FlavorsOfChosenArchOnly ==
    pc = "flavor_menu" =>
        \A f \in 1..Len(kernel_available_flavors) :
            \E i \in 1..Len(kernel_hashes_and_files) :
                /\ arch_token(kernel_hashes_and_files[i].file) = kernel_selected_target_arch
                /\ flavor_of(kernel_hashes_and_files[i].file).flavor = kernel_available_flavors[f]

\* C7: the package files the download loop takes are exactly the index
\* filenames that end in _all.deb and those whose architecture token is the
\* chosen architecture and whose flavor token is the chosen flavor.
C7_FetchSetIsArchAndFlavor ==
    pc = "prepare_dir" =>
        \A i \in 1..Len(kernel_hashes_and_files) :
            LET file == kernel_hashes_and_files[i].file
            IN  (i \in selected_positions(kernel_hashes_and_files,
                                          kernel_selected_target_arch,
                                          kernel_selected_target_flavor))
                <=> \/ str_endswith(file, <<"_","a","l","l",".","d","e","b">>)
                    \/ /\ arch_token(file) = kernel_selected_target_arch
                       /\ flavor_of(file).flavor = kernel_selected_target_flavor

----------------------------------------------------------------------------
(* Properties of the download batch and of the installation, under Spec *)

AttemptedPaths == [i \in 1..Len(attempts) |-> attempts[i].file]

SucceededPaths ==
    LET ok(a) == a.ok
        oks == SelectSeq(attempts, ok)
    IN  [i \in 1..Len(oks) |-> oks[i].file]

InList(path) ==
    \E i \in 1..Len(user_downloaded_kernel_deb_files) :
        user_downloaded_kernel_deb_files[i] = path

IsPackagePath(path) == basename(path) # CHECKSUMS_FILE

\* the batch is over: the download loop has no item left
BatchEnd == pc = "dl_loop" /\ remaining_positions = {}

\* the DownloadManifest is empty or holds the manifest file only
ManifestFileOnly(files) ==
    \/ Len(files) = 0
    \/ Len(files) = 1 /\ basename(files[1]) = CHECKSUMS_FILE

InstallEvents ==
    LET inst(e) == e.ev = "install" IN SelectSeq(batch_log, inst)

\* C1: a batch that leaves the DownloadManifest empty or with the manifest
\* file only never prints the file list and never offers installation or
\* installs.
C1_NothingDownloadedNoOffer ==
    ManifestFileOnly(user_downloaded_kernel_deb_files) =>
        /\ "file_list" \notin shown
        /\ "install_offer" \notin shown
        /\ pc \notin {"install_prompt", "lock_check", "lock_prompt", "install",
                      "after_batch", "reboot_prompt"}

\* the paths the batch has to attempt: the manifest file, then every
\* selected file of the index in the order of the index
PathsToAttempt ==
    LET pos == selected_positions(kernel_hashes_and_files, kernel_selected_target_arch,
                                  kernel_selected_target_flavor)
        sel(e) == is_selected(e.file, kernel_selected_target_arch,
                              kernel_selected_target_flavor)
        files == SelectSeq(kernel_hashes_and_files, sel)
    IN  <<destination_full_path(kernel_selected_target_arch,
                                kernel_selected_target_flavor, CHECKSUMS_FILE)>>
        \o [i \in 1..Len(files) |->
               destination_full_path(kernel_selected_target_arch,
                                     kernel_selected_target_flavor, files[i].file)]

\* C2: whatever the downloads return, a batch that has started leaves the
\* download loop only with every selected file attempted exactly once.
C2_BatchNeverAborted ==
    (attempts # <<>> /\ pc \notin {"dl_loop", "exited"}) =>
        AttemptedPaths = PathsToAttempt

\* C3: during and at the end of the batch the DownloadManifest is the
\* sequence of the destination paths whose download succeeded, in the order
\* of the attempts.
C3_ManifestIsSucceededAttempts ==
    pc = "dl_loop" => user_downloaded_kernel_deb_files = SucceededPaths

C3_Witness ==
    /\ BatchEnd
    /\ Len(user_downloaded_kernel_deb_files) >= 2
    /\ attempts[1].ok
    /\ \E i \in 1..Len(attempts) : ~attempts[i].ok

Mismatched(path) ==
    \E i \in 1..Len(attempts) :
        attempts[i].file = path /\ attempts[i].ok /\ attempts[i].digest = "mismatch"

\* C4: a downloaded file whose digest differs stays in the DownloadManifest,
\* the batch goes on with the next file, and an install batch that is not
\* abandoned passes the file to the install tool.
C4_VerificationIsAdvisory ==
    /\ \A i \in 1..Len(attempts) : Mismatched(attempts[i].file) => InList(attempts[i].file)
    /\ (pc = "except_exc" /\ attempts # <<>>) => attempts[Len(attempts)].digest = "none"
    /\ (pc = "after_batch" /\ ~exit_installation) =>
           \A i \in 1..Len(attempts) :
               (Mismatched(attempts[i].file) /\ IsPackagePath(attempts[i].file)) =>
                   \E j \in 1..Len(InstallEvents) : InstallEvents[j].file = attempts[i].file

C4_Witness ==
    /\ pc = "after_batch"
    /\ \E j \in 1..Len(InstallEvents) : Mismatched(InstallEvents[j].file)
    /\ \E i \in 1..(Len(attempts) - 1) : attempts[i].digest = "mismatch"

\* the first iteration of a session that was given the scenario manifest
ScenarioRun == iter = 1 /\ manifest = M_scenario

ScenarioPaths ==
    [i \in 1..4 |-> destination_full_path(W_amd64, W_generic,
        <<CHECKSUMS_FILE, F_hdr_generic_amd64, F_img_generic_amd64, F_hdr_all>>[i])]

\* C8: for the scenario manifest (two amd64/generic lines, one _all.deb
\* line, one line with a 39-character digest) the index has 3 entries, the
\* ArchitectureSet is {amd64}, the FlavorSet of amd64 is {generic}, and the
\* batch attempts the manifest file and exactly the 3 package files: the
\* first attempt is for the manifest file, the later ones are for the three
\* package files, each at most once and in the order of the dict, and a
\* batch that reaches its end has made all four.
C8_EndToEndScenario ==
    ScenarioRun =>
        /\ pc # "parse" =>
               /\ Len(kernel_hashes_and_files) = 3
               /\ kernel_available_architectures = <<W_amd64>>
        /\ kernel_selected_target_arch # <<>> =>
               /\ kernel_selected_target_arch = W_amd64
               /\ kernel_available_flavors = <<W_generic>>
        /\ kernel_selected_target_flavor # <<>> =>
               Cardinality(selected_positions(kernel_hashes_and_files,
                                              kernel_selected_target_arch,
                                              kernel_selected_target_flavor)) = 3
        /\ Len(attempts) <= Len(ScenarioPaths)
        /\ attempts # <<>> => attempts[1].file = ScenarioPaths[1]
        /\ \A i \in 2..Len(attempts) :
               \E k \in 2..Len(ScenarioPaths) : attempts[i].file = ScenarioPaths[k]
        /\ \A i, j \in 1..Len(attempts) :
               i # j => attempts[i].file # attempts[j].file
        /\ BatchEnd => Len(attempts) = Len(ScenarioPaths)

C8_Witness ==
    /\ ScenarioRun
    /\ BatchEnd
    /\ Len(attempts) = 4
    /\ kernel_selected_target_flavor = W_generic

NameLen(path) == Len(basename(path))

\* the name lengths of the files of seq, a marker 0 for the manifest file
NameLens(seq) ==
    [k \in 1..Len(seq) |-> IF IsPackagePath(seq[k]) THEN NameLen(seq[k]) ELSE 0]

\* C9: the install attempts of a batch are made in non-decreasing order of
\* filename length: the first attempt is for a package file of the shortest
\* name, and no file is installed before a strictly shorter package file.
\* (The quantifiers over one-element sets compute the lengths once.)
C9_InstallOrderByLength ==
    batch_log # <<>> =>
        \A installed \in {[i \in 1..Len(InstallEvents) |-> InstallEvents[i].file]} :
        \A ilen \in {NameLens(installed)} :
        \A flen \in {NameLens(user_downloaded_kernel_deb_files)} :
            /\ \A i, j \in 1..Len(installed) : i < j => ilen[i] <= ilen[j]
            /\ \A j \in 1..Len(installed) : \A k \in 1..Len(flen) :
                   (flen[k] # 0 /\ flen[k] < ilen[j]) =>
                       \E i \in 1..(j - 1) :
                           installed[i] = user_downloaded_kernel_deb_files[k]
            /\ installed # <<>> =>
                   \A k \in 1..Len(flen) : flen[k] # 0 => ilen[1] <= flen[k]

\* two installs of a batch whose files were downloaded longest name first
C9_Witness ==
    /\ pc = "after_batch"
    /\ Len(InstallEvents) >= 2
    /\ NameLen(InstallEvents[1].file) < NameLen(InstallEvents[2].file)
    /\ \E i, j \in 1..Len(attempts) :
         /\ i < j
         /\ attempts[i].file = InstallEvents[2].file
         /\ attempts[j].file = InstallEvents[1].file

ProbePositions == {i \in 1..Len(batch_log) : batch_log[i].ev = "probe"}
InstallPositions == {i \in 1..Len(batch_log) : batch_log[i].ev = "install"}
NthProbe(n) ==
    CHOOSE i \in ProbePositions : Cardinality({j \in ProbePositions : j <= i}) = n

PackageFilesInList ==
    {k \in 1..Len(user_downloaded_kernel_deb_files) :
        IsPackagePath(user_downloaded_kernel_deb_files[k])}

\* C10: in a batch with one package file whose probes return Locked, Locked,
\* Unlocked (with retry at each Locked), exactly one install attempt is made,
\* after the third probe and before any fourth probe.
C10_OneInstallAfterThirdProbe ==
    ( /\ Cardinality(PackageFilesInList) = 1
      /\ Cardinality(ProbePositions) >= 3
      /\ batch_log[NthProbe(1)].res = "locked"
      /\ batch_log[NthProbe(2)].res = "locked"
      /\ batch_log[NthProbe(3)].res = "unlocked" ) =>
        /\ Cardinality(InstallPositions) <= 1
        /\ \A i \in InstallPositions : i > NthProbe(3)
        /\ Cardinality(ProbePositions) >= 4 =>
               \E i \in InstallPositions : i < NthProbe(4)
        /\ pc = "after_batch" => Cardinality(InstallPositions) = 1

----------------------------------------------------------------------------
(* Properties of the install batch, under Spec *)

AllUnlocked == \A i \in ProbePositions : batch_log[i].res = "unlocked"

NonZeroInstalls ==
    LET failed(e) == e.rc # 0 IN SelectSeq(InstallEvents, failed)

SkipPositions == {i \in 1..Len(batch_log) : batch_log[i] = AnswerEvent("skip")}

\* C11: the manifest file is never passed to the install tool; a batch whose
\* probes all return Unlocked gives every package file of the list exactly
\* one install attempt, in the order of the list, whatever the exit statuses
\* were; after the batch the error counter is the number of attempts with a
\* non-zero status and the recorded code is the status of the last of them.
C11_FailedInstallDoesNotStopBatch ==
    /\ \A j \in 1..Len(InstallEvents) : IsPackagePath(InstallEvents[j].file)
    /\ (pc = "after_batch" /\ AllUnlocked) =>
           [j \in 1..Len(InstallEvents) |-> InstallEvents[j].file]
               = SelectSeq(user_downloaded_kernel_deb_files, IsPackagePath)
    /\ pc = "after_batch" =>
           /\ error_occurred = Len(NonZeroInstalls)
           /\ last_error_code = IF NonZeroInstalls = <<>> THEN 0
                                ELSE NonZeroInstalls[Len(NonZeroInstalls)].rc

\* a batch of two installs without a Locked probe: the first fails, the
\* second is made and succeeds
C11_Witness ==
    /\ pc = "after_batch"
    /\ AllUnlocked
    /\ Len(InstallEvents) = 2
    /\ InstallEvents[1].rc = 2
    /\ InstallEvents[2].rc = 0
    /\ last_error_code = 2

\* C12: after an install batch, a non-zero status of any attempt means the
\* last error code is reported and no reboot is offered; the reboot is
\* offered exactly when no attempt returned non-zero and the batch was not
\* abandoned by the skip answer at a lock prompt.
C12_RebootOnlyAfterCleanBatch ==
    (pc \in {"reboot_prompt", "repeat_prompt"} /\ batch_log # <<>>) =>
        /\ NonZeroInstalls # <<>> =>
               /\ "error_report" \in shown
               /\ "reboot_offer" \notin shown
               /\ last_error_code = NonZeroInstalls[Len(NonZeroInstalls)].rc
        /\ "reboot_offer" \in shown <=> (NonZeroInstalls = <<>> /\ SkipPositions = {})
        /\ pc = "reboot_prompt" => "reboot_offer" \in shown

\* a batch with one successful install that was then abandoned at a lock
\* prompt: neither an error report nor a reboot offer
C12_Witness ==
    /\ pc = "repeat_prompt"
    /\ SkipPositions # {}
    /\ InstallEvents # <<>>
    /\ NonZeroInstalls = <<>>
    /\ "reboot_offer" \notin shown
    /\ "error_report" \notin shown

\* C13: the skip answer at a lock prompt is the last event of the batch (no
\* probe and no install follows it, the installs before it stay in the
\* record) and the session goes on to the repeat prompt; the abort answer
\* leaves the batch as it is and the session only terminates: no probe,
\* install, reboot offer or repeat prompt follows.  (Ctrl-C at the prompt is
\* not an answer: it leaves through the KeyboardInterrupt clause.)
C13_SkipAbandonsBatch ==
    /\ [](\A i \in SkipPositions : i = Len(batch_log))
    /\ [][(pc = "after_batch" /\ exit_installation) => pc' = "repeat_prompt"]_vars
    /\ [][(pc = "lock_prompt" /\ pc' \notin {"lock_check", "after_batch", "except_kbd"}) =>
              (pc' = "finally" /\ batch_log' = batch_log /\ shown' = shown)]_vars
    /\ [][pc = "finally" => pc' = "exited"]_vars
    /\ [][pc # "exited"]_vars

\* one file installed, then the batch abandoned at the lock prompt of the next
C13_Witness ==
    /\ pc = "repeat_prompt"
    /\ batch_log # <<>>
    /\ batch_log[Len(batch_log)] = AnswerEvent("skip")
    /\ Len(InstallEvents) = 1
    /\ Len(SelectSeq(user_downloaded_kernel_deb_files, IsPackagePath)) = 2

----------------------------------------------------------------------------
(* Properties of the ways out of the pipeline, under Spec *)

PipelineOutput == {"arch_menu", "flavor_menu", "file_list", "install_offer",
                   "nothing_downloaded", "error_report", "reboot_offer", "reboot"}

\* C14: after a KeyboardInterrupt has reached its except clause no further
\* step of the pipeline is made, and the process exits with a status that
\* is not 0.
C14_InterruptExitsNonZero ==
    handler = "except_kbd" =>
        /\ pc \in {"finally", "exited"}
        /\ pc = "exited" => exit_status # 0

\* C15: an exception other than the web-file error and the interrupt is
\* caught by the except clause of main(), and the process exits with a
\* status that is not 0.
C15_FaultExitsNonZero ==
    /\ pc = "except_exc" => handler = "none"
    /\ handler = "except_exc" =>
           /\ pc \in {"finally", "exited"}
           /\ pc = "exited" => exit_status # 0

\* C16: a fetch of the release index or of the manifest that returns a code
\* other than success, or an empty body, raises the web-file error, which
\* the except clause of main() catches: no menu is shown, nothing is
\* downloaded or installed, and the session terminates.
C16_FetchFailureIsWebFileError ==
    web_response \in {"non_success", "empty_body"} =>
        /\ pc \in {"except_web", "finally"}
        /\ pc = "finally" => handler = "except_web"
        /\ shown \cap PipelineOutput = {}
        /\ attempts = <<>>
        /\ batch_log = <<>>

\* C17: when the tables are built and the index or the ArchitectureSet is
\* empty, the session reports that no packages are available and leaves
\* with exit_script(0); nothing else is shown, downloaded or installed in
\* that iteration, and the process exits with status 0.
C17_EmptyReleaseExitsZero ==
    /\ [][(/\ pc = "parse"
           /\ pc' # "except_exc"
           /\ Len(kernel_hashes_and_files') = 0 \/ Len(kernel_available_architectures') = 0)
          => (pc' = "finally" /\ pending_exit' = "exit0" /\ "no_packages" \in shown')]_vars
    /\ []("no_packages" \in shown =>
              /\ pc = "finally"
              /\ pending_exit = "exit0"
              /\ shown = {"no_packages"}
              /\ attempts = <<>>
              /\ batch_log = <<>>)
    /\ [][(pc = "finally" /\ pending_exit = "exit0") =>
              (pc' = "exited" /\ exit_status' = 0)]_vars

\* the empty release of a later iteration: the index still holds the entries
\* of the iteration before, the ArchitectureSet is empty
C17_Witness ==
    /\ pc = "finally"
    /\ "no_packages" \in shown
    /\ kernel_hashes_and_files # <<>>
    /\ kernel_available_architectures = <<>>

----------------------------------------------------------------------------
(* Properties of a repeated parse, under SpecSelect *)

----------------------------------------------------------------------------
(* The spinner: SpinningProgress, start_progress_spinner and                *)
(* stop_progress_spinner, and the calls of main() that they decorate.  The  *)
(* main thread and the spinner threads take their steps in any order.       *)

\* the decorated calls of one run, in the order of main(): the internet
\* check (line 695), the release index (766), the manifest (796), the
\* tables (815), a download (968, 1007) and a digest (1025)
Sites == <<"inet", "json", "checksums", "parse", "download", "digest">>

\* how a decorated call ends: "ok" goes on to stop_progress_spinner and the
\* message; "fail" prints FAILED and raises WebFileDownloadError with the
\* spinner not stopped (lines 769-773, 801-804); "raise" is an exception out
\* of the call or of the statements before the stop (line 778, lines 824-835)
CallOutcomes(site) ==
    CASE site = "json" -> {"ok", "fail", "raise"}
      [] site = "checksums" -> {"ok", "fail"}
      [] site = "parse" -> {"ok", "raise"}
      [] OTHER -> {"ok"}

\* where main() goes on when stop_progress_spinner returns
after_stop(phase) == IF phase = "finally" THEN "sp_exit" ELSE "sp_print"

\* the session before the internet check
InitSpinner ==
    /\ pc = "sp_start"
    /\ IS_PYTHON3 = TRUE
    /\ euid_is_root = FALSE
    /\ manifest = <<>>
    /\ InitGlobals

\* lines 221-225: SpinningProgress.start() for the next decorated call
StartSpinner ==
    /\ pc = "sp_start"
    /\ spin_at' = [spin_at EXCEPT !.site = spin_at.site + 1]
    /\ IF abort_progress_sentinel # "True"
       THEN /\ Len(thread_state) < MaxThreads
            /\ abort_progress_sentinel' = "False"
            /\ thread_state' = Append(thread_state, "new")
            /\ spinner_thread' = Len(thread_state) + 1
       ELSE UNCHANGED <<abort_progress_sentinel, thread_state, spinner_thread>>
    /\ pc' = "sp_call"
    /\ UNCHANGED <<envVars, faultVars, iter, parseVars, selVars, dlVars, instVars,
                   dpkg_lock, pending_exit, exit_status, shown, spinner_thread_running>>

\* the decorated call returns or raises
BlockingCall ==
    /\ pc = "sp_call"
    /\ \E outcome \in CallOutcomes(Sites[spin_at.site]) :
         CASE outcome = "ok" ->
                pc' = "sp_stop_check" /\ UNCHANGED spin_at
           [] outcome = "fail" ->
                pc' = "sp_print" /\ spin_at' = [spin_at EXCEPT !.phase = "failed"]
           [] outcome = "raise" ->
                pc' = "sp_stop_check" /\ spin_at' = [spin_at EXCEPT !.phase = "handler"]
    /\ UNCHANGED <<envVars, faultVars, iter, parseVars, selVars, dlVars, instVars,
                   dpkg_lock, pending_exit, exit_status, shown,
                   abort_progress_sentinel, spinner_thread_running, spinner_thread,
                   thread_state>>

\* line 299: stop_progress_spinner reads the flag that the threads write
StopCheck ==
    /\ pc = "sp_stop_check"
    /\ pc' = IF spinner_thread_running THEN "sp_stop_set" ELSE after_stop(spin_at.phase)
    /\ UNCHANGED <<envVars, spinVars, faultVars, iter, parseVars, selVars, dlVars,
                   instVars, dpkg_lock, pending_exit, exit_status, shown>>

\* lines 227-228 and 300: SpinningProgress.stop()
StopSet ==
    /\ pc = "sp_stop_set"
    /\ abort_progress_sentinel' = "True"
    /\ pc' = "sp_join"
    /\ UNCHANGED <<envVars, faultVars, iter, parseVars, selVars, dlVars, instVars,
                   dpkg_lock, pending_exit, exit_status, shown,
                   spinner_thread_running, spinner_thread, thread_state, spin_at>>

\* line 301: spinner_thread.join() returns when the last thread created has
\* ended
Join ==
    /\ pc = "sp_join"
    /\ thread_state[spinner_thread] = "done"
    /\ pc' = after_stop(spin_at.phase)
    /\ UNCHANGED <<envVars, spinVars, faultVars, iter, parseVars, selVars, dlVars,
                   instVars, dpkg_lock, pending_exit, exit_status, shown>>

\* the message of main() after the call: SUCCESS or FAILED and then the next
\* decorated call or the end of the pipeline (the end of the while loop or
\* an exit_script inside the try block); FAILED before the
\* WebFileDownloadError; the message of an except clause before its
\* exit_script(1).  Every way out passes the finally clause, which stops the
\* spinner once more.
PrintMessage ==
    /\ pc = "sp_print"
    /\ CASE spin_at.phase = "body" ->
              \/ /\ spin_at.site < Len(Sites)
                 /\ pc' = "sp_start"
                 /\ UNCHANGED spin_at
              \/ /\ spin_at.site > 1
                 /\ pc' = "sp_stop_check"
                 /\ spin_at' = [spin_at EXCEPT !.phase = "finally"]
         [] spin_at.phase = "failed" ->
              /\ pc' = "sp_stop_check"
              /\ spin_at' = [spin_at EXCEPT !.phase = "handler"]
         [] spin_at.phase = "handler" ->
              /\ pc' = "sp_stop_check"
              /\ spin_at' = [spin_at EXCEPT !.phase = "finally"]
    /\ UNCHANGED <<envVars, faultVars, iter, parseVars, selVars, dlVars, instVars,
                   dpkg_lock, pending_exit, exit_status, shown,
                   abort_progress_sentinel, spinner_thread_running, spinner_thread,
                   thread_state>>

\* line 1203: exit_script(0) ends the main thread
ExitProcess ==
    /\ pc = "sp_exit"
    /\ pc' = "sp_main_done"
    /\ exit_status' = 0
    /\ UNCHANGED <<envVars, spinVars, faultVars, iter, parseVars, selVars, dlVars,
                   instVars, dpkg_lock, pending_exit, shown>>

\* lines 230-242: one step of a spinner thread: it sets the flag, it leaves
\* the loop when it reads the sentinel set, it clears the flag and ends
SpinnerThread ==
    /\ \E t \in 1..Len(thread_state) :
         \/ /\ thread_state[t] = "new"
            /\ thread_state' = [thread_state EXCEPT ![t] = "loop"]
            /\ spinner_thread_running' = TRUE
         \/ /\ thread_state[t] = "loop"
            /\ abort_progress_sentinel = "True"
            /\ thread_state' = [thread_state EXCEPT ![t] = "leaving"]
            /\ UNCHANGED spinner_thread_running
         \/ /\ thread_state[t] = "leaving"
            /\ thread_state' = [thread_state EXCEPT ![t] = "done"]
            /\ spinner_thread_running' = FALSE
    /\ UNCHANGED <<pc, envVars, faultVars, iter, parseVars, selVars, dlVars, instVars,
                   dpkg_lock, pending_exit, exit_status, shown,
                   abort_progress_sentinel, spinner_thread, spin_at>>

NextSpinner ==
    \/ StartSpinner \/ BlockingCall \/ StopCheck \/ StopSet \/ Join
    \/ PrintMessage \/ ExitProcess \/ SpinnerThread

SpecSpinner == InitSpinner /\ [][NextSpinner]_vars

----------------------------------------------------------------------------
(* Properties of the spinner, under SpecSpinner *)

ThreadsEnded == \A t \in 1..Len(thread_state) : thread_state[t] = "done"

\* C18: when the main thread has left through the finally clause, every
\* spinner thread that was started has been told to stop and has ended.
C18_SpinnerStoppedBeforeExit ==
    pc = "sp_main_done" => ThreadsEnded

\* C19: when main() prints the message that follows a decorated call, every
\* spinner thread that was started has been stopped and has ended.
C19_SpinnerStoppedBeforePrint ==
    pc = "sp_print" => ThreadsEnded

----------------------------------------------------------------------------
(* Properties of the manifest parse, under SpecSelect *)

\* C21: for every manifest text the parse runs to completion: the step that
\* builds the tables ends at the architecture menu or at the empty-release
\* exit, never in an exception.
C21_ParseNeverRaises ==
    [][pc = "parse" => (pc' = "arch_menu" \/ (pc' = "finally" /\ pending_exit' = "exit0"))]_vars

----------------------------------------------------------------------------
(* Properties of the flavor derivation, under SpecSelect *)

DashCount(file) == Cardinality({i \in 1..Len(file) : file[i] = "-"})

\* the index filenames the flavor loop derives a flavor from
FlavorSources(arch) ==
    {i \in 1..Len(kernel_hashes_and_files) :
        has_flavor_for(kernel_hashes_and_files[i].file, arch)}

\* C22: a filename matched for the chosen architecture that has fewer than
\* four "-" gives the flavor token that starts at position 0 of the filename
\* and ends before its first "_", and the derivation raises only for a
\* filename with four "-" or more.
C22_FlavorFallbackFromStart ==
    /\ [](pc = "flavor_menu" =>
            \A i \in FlavorSources(kernel_selected_target_arch) :
                \A file \in {kernel_hashes_and_files[i].file} :
                    DashCount(file) < FlavorDashNo =>
                        \E f \in 1..Len(kernel_available_flavors) :
                            kernel_available_flavors[f] =
                                SubSeq(file, 1, get_string_index(file, <<"_">>)))
    /\ [][(pc = "arch_menu" /\ pc' = "except_exc") =>
              \E i \in FlavorSources(kernel_selected_target_arch') :
                  DashCount(kernel_hashes_and_files[i].file) >= FlavorDashNo]_vars

----------------------------------------------------------------------------
(* Properties of the ChecksumIndex over a session, under Spec *)

\* C23: the ChecksumIndex is built by the first parse of the session and no
\* later step of the running session, the parse of a later iteration
\* included, adds, removes or changes an entry.
C23_IndexBuiltOncePerSession ==
    [][((pc = "parse" /\ iter = 1) \/ pc = "finally")
           \/ kernel_hashes_and_files' = kernel_hashes_and_files]_vars

----------------------------------------------------------------------------
(* Properties of the index as a mapping, under SpecSelect *)

\* the qualifying lines of the manifest text, in the order of the text
QualifyingLines == SelectSeq(manifest, QualifyingLine)

\* the positions in QualifyingLines where a digest appears for the first time
FirstSeen ==
    {i \in 1..Len(QualifyingLines) :
        \A j \in 1..(i - 1) :
            str_split(QualifyingLines[j])[1] # str_split(QualifyingLines[i])[1]}

\* C24: after the first parse of a session the index holds one entry for
\* every digest of a qualifying line, the entry maps the digest to the
\* filename of the last line that carries it, and the entries are in the
\* order in which their digests were first parsed.
C24_LastWriteWinsInParseOrder ==
    (pc = "arch_menu" /\ iter = 1) =>
        /\ Len(kernel_hashes_and_files) = Cardinality(FirstSeen)
        /\ \A k \in 1..Len(kernel_hashes_and_files) :
               \A i \in {CHOOSE f \in FirstSeen :
                            Cardinality({j \in FirstSeen : j <= f}) = k} :
               \A digest \in {str_split(QualifyingLines[i])[1]} :
               \A last \in {CHOOSE l \in 1..Len(QualifyingLines) :
                               /\ str_split(QualifyingLines[l])[1] = digest
                               /\ \A j \in (l + 1)..Len(QualifyingLines) :
                                      str_split(QualifyingLines[j])[1] # digest} :
                   kernel_hashes_and_files[k] =
                       [hash |-> digest, file |-> str_split(QualifyingLines[last])[2]]

----------------------------------------------------------------------------
(* Properties of the install loop as a state machine, under Spec *)

UnlockedProbesUpTo(i) ==
    Cardinality({j \in 1..i : batch_log[j] = ProbeEvent("unlocked")})

\* C25: an install attempt directly follows an Unlocked probe for the same
\* file; a probe directly follows a retry answer, an install or the passing
\* over of the manifest file, never a Locked probe; an answer (retry or skip)
\* directly follows a Locked probe; the lock prompt, where skip and abort
\* are chosen, is only open directly after a Locked probe, and the batch is
\* only marked as abandoned by a skip answer.
C25_InstallLoopStateMachine ==
    /\ \A i \in 1..Len(batch_log) :
         /\ batch_log[i].ev = "install" =>
                /\ i > 1
                /\ batch_log[i - 1] = ProbeEvent("unlocked")
                /\ batch_log[i].file =
                       user_downloaded_kernel_deb_files[UnlockedProbesUpTo(i)]
         /\ (batch_log[i].ev = "probe" /\ i > 1) =>
                \/ batch_log[i - 1] = AnswerEvent("retry")
                \/ batch_log[i - 1].ev = "install"
                \/ /\ batch_log[i - 1] = ProbeEvent("unlocked")
                   /\ ~IsPackagePath(user_downloaded_kernel_deb_files[UnlockedProbesUpTo(i - 1)])
         /\ batch_log[i].ev = "answer" =>
                /\ i > 1
                /\ batch_log[i - 1] = ProbeEvent("locked")
    /\ pc = "lock_prompt" =>
           /\ batch_log # <<>>
           /\ batch_log[Len(batch_log)] = ProbeEvent("locked")
    /\ exit_installation => SkipPositions # {}

\* a file installed after a Locked probe, a retry and an Unlocked probe
C25_Witness ==
    /\ Len(batch_log) >= 4
    /\ \E i \in 1..(Len(batch_log) - 3) :
         /\ batch_log[i] = ProbeEvent("locked")
         /\ batch_log[i + 1] = AnswerEvent("retry")
         /\ batch_log[i + 2] = ProbeEvent("unlocked")
         /\ batch_log[i + 3].ev = "install"

----------------------------------------------------------------------------
(* The install batch on its own: root at the install prompt after a batch  *)
(* that downloaded the manifest file and both package files of M_amd64.    *)
(* The steps of main() and the answers of the user are taken eventually;   *)
(* the other installer and Ctrl-C are under no obligation.                  *)

InstallBatchFiles(index) ==
    <<destination_full_path(W_amd64, W_generic, CHECKSUMS_FILE)>> \o
    [i \in 1..Len(index) |-> destination_full_path(W_amd64, W_generic, index[i].file)]

InitInstall ==
    /\ pc = "install_prompt"
    /\ IS_PYTHON3 \in BOOLEAN
    /\ euid_is_root = TRUE
    /\ iter = 1
    /\ manifest = M_amd64
    /\ kernel_hashes_and_files \in
           dict_item_orders(build_checksum_tables(<<>>, M_amd64).index)
    /\ kernel_available_architectures = <<W_amd64>>
    /\ kernel_available_flavors = <<W_generic>>
    /\ kernel_selected_target_arch = W_amd64
    /\ kernel_selected_target_flavor = W_generic
    /\ user_downloaded_kernel_deb_files =
           sort_by_len(InstallBatchFiles(kernel_hashes_and_files))
    /\ dl_pos = Len(kernel_hashes_and_files)
    /\ attempts = [i \in 1..(Len(kernel_hashes_and_files) + 1) |->
                      [file |-> InstallBatchFiles(kernel_hashes_and_files)[i],
                       ok |-> TRUE,
                       digest |-> IF i = 1 THEN "none" ELSE "match"]]
    /\ inst_pos = 0
    /\ error_occurred = 0
    /\ last_error_code = 0
    /\ exit_installation = FALSE
    /\ dpkg_lock = FALSE
    /\ pending_exit = "none"
    /\ exit_status = -1
    /\ batch_log = <<>>
    /\ shown = {"arch_menu", "flavor_menu", "file_list", "install_offer"}
    /\ handler = "none"
    /\ web_response = "ok"
    /\ abort_progress_sentinel = "None"
    /\ spinner_thread_running = FALSE
    /\ spinner_thread = 0
    /\ thread_state = <<>>
    /\ spin_at = [site |-> 0, phase |-> "body"]

NextInstall ==
    \/ InstallPrompt \/ LockCheck \/ LockPrompt \/ Install \/ AfterBatch
    \/ OtherInstaller \/ Interrupt \/ ExceptHandler \/ Finally

SpecInstall ==
    /\ InitInstall
    /\ [][NextInstall]_vars
    /\ WF_vars(InstallPrompt)
    /\ WF_vars(LockCheck)
    /\ WF_vars(LockPrompt)
    /\ WF_vars(Install)

----------------------------------------------------------------------------
(* Properties of the lock-retry loop, under SpecInstall *)

\* the install loop is at work on a file
InBatch == pc \in {"lock_check", "lock_prompt", "install"}

\* C26: the retry answer is on offer at every lock prompt, however many
\* probes returned Locked before; and a batch that is at work on a file
\* comes to an end (all files done, skipped, aborted or interrupted) unless
\* the probe returns Locked again and again and the user answers retry
\* again and again.
C26_RetryLoopHasWayOut ==
    /\ [](pc = "lock_prompt" => ENABLED <<LockPrompt /\ pc' = "lock_check">>_vars)
    /\ \/ InBatch ~> ~InBatch
       \/ /\ []<><<pc = "lock_check" /\ pc' = "lock_prompt">>_vars
          /\ []<><<pc = "lock_prompt" /\ pc' = "lock_check">>_vars

\* a batch that ended with all files done after more Locked probes than the
\* history tells apart
C26_Witness ==
    /\ pc = "after_batch"
    /\ ~exit_installation
    /\ LockedProbes > MaxLockedProbes
    /\ Len(InstallEvents) = 2

----------------------------------------------------------------------------
(* Properties of the order of the pipeline stages, under Spec *)

\* the stage of the iteration that a position of main() belongs to
Stage ==
    [p \in {"fetch_json", "fetch_checksums", "parse", "arch_menu", "flavor_menu",
            "prepare_dir", "dl_checksums", "dl_loop", "install_prompt",
            "lock_check", "lock_prompt", "install", "after_batch",
            "reboot_prompt", "repeat_prompt"} |->
        CASE p \in {"fetch_json", "fetch_checksums", "parse"} -> 1
          [] p \in {"arch_menu", "flavor_menu"} -> 2
          [] p \in {"prepare_dir", "dl_checksums", "dl_loop"} -> 3
          [] p \in {"install_prompt", "lock_check", "lock_prompt", "install"} -> 4
          [] OTHER -> 5]

SelectedCount ==
    Cardinality(selected_positions(kernel_hashes_and_files, kernel_selected_target_arch,
                                   kernel_selected_target_flavor))

\* C27: within one iteration the stages follow each other: nothing is
\* selected, downloaded or installed while the tables are built; no download
\* attempt is made before both menus were answered; a probe or an install is
\* made only after the manifest file and every selected file had its
\* download attempt, with the verification that belongs to it; main() never
\* goes back to an earlier stage of the same iteration, and one step makes
\* at most one download attempt or one install attempt, never both.
C27_StagesAreSequential ==
    /\ [](/\ (pc \in DOMAIN Stage /\ Stage[pc] = 1) =>
                 shown = {} /\ attempts = <<>> /\ batch_log = <<>>
          /\ (pc \in DOMAIN Stage /\ Stage[pc] = 2) =>
                 attempts = <<>> /\ batch_log = <<>>
          /\ pc = "arch_menu" => "flavor_menu" \notin shown
          /\ attempts # <<>> =>
                 /\ {"arch_menu", "flavor_menu"} \subseteq shown
                 /\ \E a \in 1..Len(kernel_available_architectures) :
                        kernel_available_architectures[a] = kernel_selected_target_arch
                 /\ \E f \in 1..Len(kernel_available_flavors) :
                        kernel_available_flavors[f] = kernel_selected_target_flavor
          /\ (pc \in DOMAIN Stage /\ Stage[pc] = 3) => batch_log = <<>>
          /\ batch_log # <<>> =>
                 /\ Len(attempts) = 1 + SelectedCount
                 /\ \A i \in 2..Len(attempts) : attempts[i].digest # "none")
    /\ [][/\ (pc \in DOMAIN Stage /\ pc' \in DOMAIN Stage /\ iter' = iter) =>
                 Stage[pc'] >= Stage[pc]
          /\ Len(attempts') <= Len(attempts) + 1
          /\ Len(batch_log') <= Len(batch_log) + 1
          /\ Len(attempts') <= Len(attempts) \/ Len(batch_log') <= Len(batch_log)]_vars

\* the second file of the batch of a second iteration is about to be installed
C27_Witness ==
    /\ iter = 2
    /\ pc = "install"
    /\ Len(InstallEvents) = 1
    /\ Len(attempts) = 3

----------------------------------------------------------------------------
(* Properties of the way into the installation, under Spec *)

\* C28: a lock probe or an install attempt is only made by a process whose
\* effective uid is 0, with a DownloadManifest that is not empty, in an
\* iteration whose install prompt was shown; and the install loop is only
\* entered from that prompt, by the answer Yes.
C28_InstallIsPrivilegeGated ==
    /\ []((InBatch \/ batch_log # <<>>) =>
             /\ euid_is_root
             /\ user_downloaded_kernel_deb_files # <<>>
             /\ "install_offer" \in shown)
    /\ [][(~InBatch /\ InBatch') =>
             /\ pc = "install_prompt"
             /\ pc' = "lock_check"
             /\ batch_log' = <<>>]_vars
    /\ [][(pc = "install_prompt" /\ pc' \in {"repeat_prompt", "finally", "except_kbd"}) =>
             batch_log' = batch_log]_vars

\* root has just answered Yes to the install prompt of a second iteration
C28_Witness ==
    /\ iter = 2
    /\ pc = "lock_check"
    /\ batch_log = <<>>
    /\ euid_is_root

----------------------------------------------------------------------------
(* Properties that tie the menus to the index, under SpecSelect *)

\* C29: at the architecture menu every architecture on offer is the
\* architecture token of a filename that is in the index, and the flavor
\* menu of a chosen architecture is never empty.
C29_OfferedArchHasIndexFile ==
    /\ pc = "arch_menu" =>
           \A a \in 1..Len(kernel_available_architectures) :
               \E i \in 1..Len(kernel_hashes_and_files) :
                   arch_token(kernel_hashes_and_files[i].file)
                       = kernel_available_architectures[a]
    /\ pc = "flavor_menu" => kernel_available_flavors # <<>>

\* C30: once an offered architecture and an offered flavor are chosen, every
\* index file from which that flavor was derived is taken by the download
\* loop and ends in _<architecture>.deb, and there is at least one such file.
C30_SelectionAndFetchAgree ==
    pc = "prepare_dir" =>
        \A derived \in {{i \in FlavorSources(kernel_selected_target_arch) :
                          flavor_of(kernel_hashes_and_files[i].file).flavor
                              = kernel_selected_target_flavor}} :
            /\ derived # {}
            /\ \A i \in derived :
                   /\ i \in selected_positions(kernel_hashes_and_files,
                                               kernel_selected_target_arch,
                                               kernel_selected_target_flavor)
                   /\ str_endswith(kernel_hashes_and_files[i].file,
                                   <<"_">> \o kernel_selected_target_arch \o W_deb)

----------------------------------------------------------------------------
(* Properties of the reboot offer, under Spec *)

\* C31: the success message with the reboot prompt is only shown in a batch
\* of which at least one install attempt returned the status 0.
C31_RebootOfferAfterAnInstall ==
    "reboot_offer" \in shown =>
        \E i \in 1..Len(InstallEvents) : InstallEvents[i].rc = 0

----------------------------------------------------------------------------
(* Properties of the number of spinner threads, under SpecSpinner *)

\* the spinner threads that were started and have not ended
AliveThreads == {t \in 1..Len(thread_state) : thread_state[t] # "done"}

\* C32: at most one spinner thread is alive at any time.
C32_AtMostOneSpinnerThread ==
    Cardinality(AliveThreads) <= 1

----------------------------------------------------------------------------
(* Properties of the lock between a probe and the install, under Spec *)

\* C33: between an Unlocked probe and the install attempt that follows it
\* no other process holds the dpkg lock.
C33_LockFreeUntilInstall ==
    pc = "install" => ~dpkg_lock

\* the files the current iteration has downloaded
DownloadedNow == {SucceededPaths[i] : i \in 1..Len(SucceededPaths)}

\* the positions of an iteration at which the DownloadManifest is reported,
\* offered for installation or installed
ManifestInUse ==
    pc \in {"dl_loop", "report", "install_prompt", "lock_check", "lock_prompt",
            "install", "after_batch", "reboot_prompt"}

\* C34: in every iteration of a session the DownloadManifest that is
\* reported and installed holds only files the current iteration has
\* downloaded: the first download of an iteration starts from the empty list,
\* whatever the iteration before left in it, and every file of the list and
\* every file passed to the install tool is a download of this iteration.
C34_ManifestOfCurrentIteration ==
    /\ [](ManifestInUse =>
            /\ \A k \in 1..Len(user_downloaded_kernel_deb_files) :
                   user_downloaded_kernel_deb_files[k] \in DownloadedNow
            /\ \A j \in 1..Len(InstallEvents) : InstallEvents[j].file \in DownloadedNow)
    /\ [][pc = "dl_checksums" =>
            \A k \in 1..Len(user_downloaded_kernel_deb_files') :
                attempts'[1].ok /\ user_downloaded_kernel_deb_files'[k] = attempts'[1].file]_vars

\* the second iteration has installed a file and has left out a package file
\* whose download failed, while its local file is in the download directory
C34_Witness ==
    /\ iter = 2
    /\ pc = "after_batch"
    /\ InstallEvents # <<>>
    /\ \E i \in 1..Len(attempts) :
         /\ ~attempts[i].ok
         /\ attempts[i].digest = "left_over"
         /\ ~InList(attempts[i].file)

====
